---- MODULE Spec2Model ----
(***************************************************************************)
(* Model of the log-to-measurement core of the Kindle log analyzer:        *)
(*   - the start/end timestamp parsers (logic/event_parser.py),            *)
(*   - LogProcessor.process_iteration, the event correlation engine,       *)
(*   - the iteration splitter at the head of LogProcessor.run              *)
(*     (logic/log_processor.py).                                           *)
(*                                                                         *)
(* Python values are represented as follows.                               *)
(*   - A digit string captured by \d+ is a sequence of digits 0..9; the    *)
(*     empty sequence stands for "the pattern did not match".              *)
(*   - An optional integer (int or None) is a sequence of length <= 1:     *)
(*     <<>> is None and <<v>> is the integer v.                            *)
(*   - An insertion-ordered dict keyed by marker is a sequence of entries  *)
(*     with distinct markers, in first-insertion order.                    *)
(*   - A log line is a record of the text fields the regular expressions   *)
(*     of event_parser.py look for; body is line.strip().                  *)
(***************************************************************************)
EXTENDS Integers, Sequences, FiniteSets, TLC

\* ------------------------------------------------------------------ bounds

\* Longest line sequence handed to process_iteration.
MaxLines == 4
\* Longest log text (in symbols) handed to the splitter.
MaxText == 5
\* Longest integer part / fractional part of a captured seconds.fraction.
MaxDigits == 4
\* Calls of process_iteration made one after the other.
MaxCalls == 2

\* ------------------------------------------------------- program constants

\* duration += 1000000 (rollover correction)
Rollover == 1000000
\* duration / 1000.0 (milliseconds to seconds)
MsPerSecond == 1000
\* parts[0][-3:], parts[1][:3]
SecDigits == 3
FracDigits == 3
\* timestamp_str[-6:]
EndDigits == 6

\* ------------------------------------------------------ Python primitives

Digit == 0..9

None == <<>>
Some(v) == <<v>>

\* Python truthiness of an int-or-None: None and 0 are both falsy.
Truthy(opt) == opt # None /\ opt[1] # 0

\* int(s) for a non-empty digit string s.
RECURSIVE IntOf(_)
IntOf(ds) ==
    IF ds = <<>> THEN 0
    ELSE 10 * IntOf(SubSeq(ds, 1, Len(ds) - 1)) + ds[Len(ds)]

\* s[-n:]
LastN(ds, n) ==
    IF Len(ds) <= n THEN ds ELSE SubSeq(ds, Len(ds) - n + 1, Len(ds))

\* s[:n]
FirstN(ds, n) ==
    IF Len(ds) <= n THEN ds ELSE SubSeq(ds, 1, n)

\* str.isdigit() on a string given as a sequence of symbols.
IsDigit(ds) == ds # <<>> /\ \A i \in 1..Len(ds) : ds[i] \in Digit

\* The longest digit string int() converts; a longer one raises ValueError.
MaxStrDigits == 4300

\* int(s) raises ValueError: s is not a digit string, or is too long.
IntRaises(s) == Len(s) > MaxStrDigits \/ ~IsDigit(s)

\* ---------------------------------------------------------------- log lines

\* A log line, as the fields the patterns of event_parser.py and
\* process_iteration look for in it:
\*   body      line.strip() ("" for a blank or whitespace-only line)
\*   ev        which start-event text the line carries, with its captured
\*             (\d+\.\d+) split at the dot into secs and frac:
\*               "button_up"    button 1 up <secs>.<frac>
\*               "button_down"  Sending button 1 down <secs>.<frac>
\*               "pbpress"      def:pbpress:time=<secs>.<frac>:Power button pressed
\*   marker    digits of EPDC][<d>] or mxc_epdc_fb: [<d>]
\*   sending   "Sending update" in line
\*   height    digits of height=<d>
\*   waveform  the name captured by the first matching waveform pattern,
\*             stripped ("" when no pattern matches)
\*   endMarker digits of update end marker=<d>
\*   endTime   digits of end time=<d>
NoLine ==
    [body |-> "", ev |-> "none", secs |-> <<>>, frac |-> <<>>,
     marker |-> <<>>, sending |-> FALSE, height |-> <<>>, waveform |-> "",
     endMarker |-> <<>>, endTime |-> <<>>]

StartLine(body, ev, secs, frac) ==
    [NoLine EXCEPT !.body = body, !.ev = ev, !.secs = secs, !.frac = frac]

MarkerLine(body, marker) ==
    [NoLine EXCEPT !.body = body, !.marker = marker]

SendingLine(body, marker, height, waveform) ==
    [NoLine EXCEPT !.body = body, !.marker = marker, !.sending = TRUE,
                   !.height = height, !.waveform = waveform]

EndLine(body, endMarker, endTime) ==
    [NoLine EXCEPT !.body = body, !.endMarker = endMarker, !.endTime = endTime]

BlankLine == NoLine

StartLines ==
    { StartLine("button 1 up 12345.678", "button_up", <<1,2,3,4,5>>, <<6,7,8>>),
      StartLine("button 1 up 2000.000", "button_up", <<2,0,0,0>>, <<0,0,0>>),
      StartLine("Sending button 1 down 54321.987", "button_down",
                <<5,4,3,2,1>>, <<9,8,7>>),
      StartLine("def:pbpress:time=1751099650.205:Power button pressed", "pbpress",
                <<1,7,5,1,0,9,9,6,5,0>>, <<2,0,5>>) }

HeightLines ==
    { MarkerLine("mxc_epdc_fb: [1]", <<1>>),
      SendingLine("Sending update. height=800, waveform=DU", <<>>, <<8,0,0>>, ""),
      SendingLine("[EPDC][2] Sending update. height=1200 waveform:0x2 (GC16)",
                  <<2>>, <<1,2,0,0>>, "GC16"),
      SendingLine("[EPDC][10] Sending update. height=1200 waveform:0x2 (GC16)",
                  <<1,0>>, <<1,2,0,0>>, "GC16"),
      SendingLine("[EPDC][3] Sending update. height=1600",
                  <<3>>, <<1,6,0,0>>, "") }

EndLines ==
    { EndLine("update end marker=2 end time=12346000",
              <<2>>, <<1,2,3,4,6,0,0,0>>),
      EndLine("update end marker=10 end time=1751099651234",
              <<1,0>>, <<1,7,5,1,0,9,9,6,5,1,2,3,4>>),
      EndLine("update end marker=3 end time=5000000",
              <<3>>, <<5,0,0,0,0,0,0>>) }

\* The lines an iteration is made of.
LogLines == {BlankLine} \cup StartLines \cup HeightLines \cup EndLines

\* The lines of the repeated-call specification.
RepeatLines ==
    { l \in LogLines :
        l.body \in { "button 1 up 12345.678",
                     "def:pbpress:time=1751099650.205:Power button pressed",
                     "mxc_epdc_fb: [1]",
                     "Sending update. height=800, waveform=DU",
                     "[EPDC][2] Sending update. height=1200 waveform:0x2 (GC16)",
                     "update end marker=2 end time=12346000" } }

\* ----------------------------------------------------------- event parsers

\* The normalisation shared by the three extract_start_timestamp methods:
\* int(parts[0][-3:] + parts[1][:3]).
Normalize(secs, frac) ==
    IntOf(LastN(secs, SecDigits) \o FirstN(frac, FracDigits))

\* DefaultEventParser.extract_start_timestamp
DefaultExtractStart(line) ==
    IF line.ev = "button_up" THEN Some(Normalize(line.secs, line.frac)) ELSE None

\* SwipeEventParser.extract_start_timestamp
SwipeExtractStart(line) ==
    IF line.ev = "button_down" THEN Some(Normalize(line.secs, line.frac)) ELSE None

\* SuspendEventParser.extract_start_timestamp
SuspendExtractStart(line) ==
    IF line.ev = "pbpress" THEN Some(Normalize(line.secs, line.frac)) ELSE None

\* A parser that takes the start event of any mode.
ExtractStartAnyMode(mode, line) ==
    IF line.ev # "none" THEN Some(Normalize(line.secs, line.frac)) ELSE None

\* A parser selection that ignores the case of the mode string.
ExtractStartFoldCase(mode, line) ==
    IF mode \in {"suspend", "SUSPEND"} THEN SuspendExtractStart(line)
    ELSE IF mode = "swipe" THEN SwipeExtractStart(line)
    ELSE DefaultExtractStart(line)

\* The parser selection of process_iteration: "suspend", "swipe", else default.
extract_start_timestamp(mode, line) ==
    IF mode = "suspend" THEN SuspendExtractStart(line)
    ELSE IF mode = "swipe" THEN SwipeExtractStart(line)
    ELSE DefaultExtractStart(line)

\* BaseEventParser.extract_marker
extract_marker(line) == line.marker

\* BaseEventParser.extract_height_and_waveform: None without a height field,
\* else the height as an integer and the waveform name or "unknown".
extract_height_and_waveform(line) ==
    IF line.height = <<>> THEN None
    ELSE Some([height |-> IntOf(line.height),
               waveform |-> IF line.waveform # "" THEN line.waveform
                            ELSE "unknown"])

\* The end timestamp cut to the first 6 digits instead of the last 6.
ExtractEndHead(line) ==
    IF line.endTime = <<>> THEN None
    ELSE Some(IntOf(FirstN(line.endTime, EndDigits)))

\* BaseEventParser.extract_end_timestamp: int(timestamp_str[-6:]).
extract_end_timestamp(line) ==
    IF line.endTime = <<>> THEN None
    ELSE Some(IntOf(LastN(line.endTime, EndDigits)))

\* ------------------------------------------------- insertion-ordered dicts

DictKeys(d) == [i \in 1..Len(d) |-> d[i].marker]

DictHas(d, k) == \E i \in 1..Len(d) : d[i].marker = k

DictGet(d, k) == d[CHOOSE i \in 1..Len(d) : d[i].marker = k]

\* A dict whose overwritten key moves to the last position.
DictPutLast(d, e) ==
    Append(SelectSeq(d, LAMBDA x : x.marker # e.marker), e)

\* d[e.marker] = e: an existing key keeps its position, a new key goes last.
DictPut(d, e) ==
    IF DictHas(d, e.marker)
    THEN [i \in 1..Len(d) |-> IF d[i].marker = e.marker THEN e ELSE d[i]]
    ELSE Append(d, e)

\* str.lower() on the waveform names of the model.
Lower(w) ==
    CASE w = "GC16" -> "gc16"
      [] w = "DU" -> "du"
      [] w = "UNKNOWN" -> "unknown"
      [] OTHER -> w

\* ------------------------------------------------------- process_iteration

VARIABLES
    pc,                  \* "idle", "scan" (inside the for loop), "done" (returned)
    mode,                \* argument mode
    iteration_num,       \* argument iteration_num
    lines,               \* the lines the for loop has consumed so far
    start_time,          \* local: int or None
    start_line,          \* local: the stripped start line ("" for None)
    current_marker,      \* local: digit string (<<>> for None)
    heights_by_marker,   \* local: dict marker -> height record
    end_times_by_marker, \* local: dict marker -> end-time record
    result,              \* the value returned by the last finished call
    calls                \* number of calls of process_iteration made so far

iterVars ==
    <<pc, mode, iteration_num, lines, start_time, start_line, current_marker,
      heights_by_marker, end_times_by_marker, result, calls>>

Modes == {"default", "swipe", "suspend"}

\* Iteration ids as run() passes them: the digits captured by ITERATION_(\d+).
IterationIds == {<<1>>, <<0,2>>}

\* The locals of process_iteration as one record.
Locals ==
    [start_time |-> start_time, start_line |-> start_line,
     current_marker |-> current_marker,
     heights_by_marker |-> heights_by_marker,
     end_times_by_marker |-> end_times_by_marker]

\* The locals as process_iteration initialises them.
FreshLocals ==
    [start_time |-> None, start_line |-> "", current_marker |-> <<>>,
     heights_by_marker |-> <<>>, end_times_by_marker |-> <<>>]

\* "if not start_time: possible_start = ...; if possible_start: ..."
ScanStart(loc, m, line) ==
    IF ~Truthy(loc.start_time) /\ Truthy(extract_start_timestamp(m, line))
    THEN [loc EXCEPT !.start_time = extract_start_timestamp(m, line),
                     !.start_line = line.body]
    ELSE loc

\* "marker = parser.extract_marker(line); if marker: current_marker = marker"
ScanMarker(loc, line) ==
    IF extract_marker(line) # <<>>
    THEN [loc EXCEPT !.current_marker = extract_marker(line)]
    ELSE loc

\* A stored waveform that keeps the name "auto".
StoredAsExtracted(w) == IF w # "" THEN w ELSE "unknown"

\* The stored waveform: "unknown" replaces an empty name and "auto".
StoredWaveform(w) == IF w # "" /\ w # "auto" THEN w ELSE "unknown"

\* 'if "Sending update" in line and current_marker: ...'
ScanHeight(loc, line) ==
    LET hw == extract_height_and_waveform(line) IN
    IF line.sending /\ loc.current_marker # <<>> /\ hw # None
    THEN [loc EXCEPT !.heights_by_marker =
            DictPut(@, [marker |-> loc.current_marker,
                        height |-> hw[1].height,
                        waveform |-> StoredWaveform(hw[1].waveform),
                        line |-> line.body])]
    ELSE loc

\* 'if "update end marker=" in line and "end time=" in line: ...'
ScanEnd(loc, line) ==
    LET end_time == extract_end_timestamp(line) IN
    IF line.endMarker # <<>> /\ Truthy(end_time)
    THEN [loc EXCEPT !.end_times_by_marker =
            DictPut(@, [marker |-> line.endMarker,
                        time |-> end_time[1],
                        line |-> line.body])]
    ELSE loc

\* The pass over this line raises: int(height_match.group(1)) is reached
\* with a digit string that int() refuses.
ScanRaises(loc, m, line) ==
    /\ line.body # ""
    /\ line.sending
    /\ ScanMarker(ScanStart(loc, m, line), line).current_marker # <<>>
    /\ line.height # <<>>
    /\ IntRaises(line.height)

\* The locals at the moment the pass over this line raises.
ScanUntilRaise(loc, m, line) == ScanMarker(ScanStart(loc, m, line), line)

\* A pass in which a blank line ends the current marker context.
ScanLineBlankResets(loc, m, line) ==
    IF line.body = "" THEN [loc EXCEPT !.current_marker = <<>>]
    ELSE ScanEnd(ScanHeight(ScanMarker(ScanStart(loc, m, line), line), line), line)

\* A pass that looks for the height before it looks for the marker.
ScanLineHeightFirst(loc, m, line) ==
    IF line.body = "" THEN loc
    ELSE ScanEnd(ScanMarker(ScanHeight(ScanStart(loc, m, line), line), line), line)

\* One pass of the body of "for line in lines".
ScanLine(loc, m, line) ==
    IF line.body = "" THEN loc
    ELSE ScanEnd(ScanHeight(ScanMarker(ScanStart(loc, m, line), line), line), line)

\* The comparison with "unknown" without lower().
KnownExact(e) == e.waveform # "unknown"

\* "info['waveform'].lower() != 'unknown'"
KnownWaveform(e) == Lower(e.waveform) # "unknown"

\* valid_heights without the fallback to all records.
KnownOnly(heights) == SelectSeq(heights, KnownWaveform)

\* valid_heights: the records with a known waveform, or all of them when
\* there is none.
ValidHeights(heights) ==
    IF SelectSeq(heights, KnownWaveform) # <<>>
    THEN SelectSeq(heights, KnownWaveform)
    ELSE heights

\* max(info['height'] for info in valid_heights.values())
MaxHeight(valid) ==
    CHOOSE h \in {valid[i].height : i \in 1..Len(valid)} :
        \A i \in 1..Len(valid) : valid[i].height <= h

HasMaxHeight(valid, e) == e.height = MaxHeight(valid)

\* The sort key "int(m) if m.isdigit() else 0".
MarkerKey(m) == IF IsDigit(m) THEN IntOf(m) ELSE 0

\* list.sort(key=MarkerKey): a stable sort, here by insertion.
InsertSorted(sorted, m) ==
    LET n == Cardinality({i \in 1..Len(sorted) : MarkerKey(sorted[i]) <= MarkerKey(m)})
    IN SubSeq(sorted, 1, n) \o <<m>> \o SubSeq(sorted, n + 1, Len(sorted))

\* No sort: the tied markers stay in insertion order.
KeepOrder(ms) == ms

RECURSIVE SortMarkers(_)
SortMarkers(ms) ==
    IF ms = <<>> THEN <<>>
    ELSE InsertSorted(SortMarkers(SubSeq(ms, 1, Len(ms) - 1)), ms[Len(ms)])

\* max_height_markers, sorted; the chosen marker is its last element.
MaxHeightMarkers(valid) ==
    LET tied == SelectSeq(valid, LAMBDA e : HasMaxHeight(valid, e))
    IN SortMarkers(DictKeys(tied))

ChosenMarker(valid) ==
    LET ms == MaxHeightMarkers(valid) IN
    IF ms # <<>> THEN ms[Len(ms)] ELSE valid[1].marker

\* max(end_times_by_marker.values(), key=lambda x: x['time']): the first
\* record of maximal time.
MaxEndRecord(ends) ==
    ends[CHOOSE i \in 1..Len(ends) :
            /\ \A j \in 1..Len(ends) : ends[j].time <= ends[i].time
            /\ \A j \in 1..(i - 1) : ends[j].time < ends[i].time]

\* A stop time that falls back to the first end-time record.
StopTimeFirst(ends, chosen) ==
    IF DictHas(ends, chosen) THEN DictGet(ends, chosen).time
    ELSE ends[1].time

\* max_height_end_time
StopTime(ends, chosen) ==
    IF DictHas(ends, chosen) THEN DictGet(ends, chosen).time
    ELSE MaxEndRecord(ends).time

\* The difference without the rollover correction.
DurationNoCorrection(stop, start) == stop - start

\* The absolute difference instead of the rollover correction.
DurationAbs(stop, start) ==
    IF stop - start < 0 THEN start - stop ELSE stop - start

\* "duration = end - start; if duration < 0: duration += 1000000"
DurationMs(stop, start) ==
    IF stop - start < 0 THEN stop - start + Rollover ELSE stop - start

\* "duration / 1000.0": seconds, as whole seconds and thousandths.
ToSeconds(ms) == [seconds |-> ms \div MsPerSecond, millis |-> ms % MsPerSecond]

\* The tail of process_iteration, from the completeness test to the return
\* value: None, or the result dict.
Finish(loc, id, m) ==
    IF \/ ~Truthy(loc.start_time)
       \/ loc.heights_by_marker = <<>>
       \/ loc.end_times_by_marker = <<>>
    THEN None
    ELSE IF ValidHeights(loc.heights_by_marker) = <<>> THEN None
    ELSE
      LET valid == ValidHeights(loc.heights_by_marker)
          chosen == ChosenMarker(valid)
          info == DictGet(valid, chosen)
          stop == StopTime(loc.end_times_by_marker, chosen)
      IN Some([iteration |-> IntOf(id),
               start |-> loc.start_time[1],
               stop |-> stop,
               marker |-> chosen,
               duration |-> ToSeconds(DurationMs(stop, loc.start_time[1])),
               max_height |-> info.height,
               max_height_waveform |-> info.waveform,
               start_line |-> loc.start_line,
               all_heights |-> [i \in 1..Len(loc.heights_by_marker) |->
                   [marker |-> loc.heights_by_marker[i].marker,
                    height |-> loc.heights_by_marker[i].height,
                    waveform |-> loc.heights_by_marker[i].waveform]],
               mode |-> m,
               all_end_times |-> loc.end_times_by_marker])

\* The tail of process_iteration raises: the result dict is reached and
\* int(iteration_num) refuses the id.
FinishRaises(loc, id) ==
    /\ Truthy(loc.start_time)
    /\ loc.heights_by_marker # <<>>
    /\ loc.end_times_by_marker # <<>>
    /\ ValidHeights(loc.heights_by_marker) # <<>>
    /\ IntRaises(id)

\* The whole of process_iteration as a function of its arguments.
RECURSIVE ScanAll(_, _, _)
ScanAll(loc, m, ls) ==
    IF ls = <<>> THEN loc ELSE ScanAll(ScanLine(loc, m, Head(ls)), m, Tail(ls))

\* process_iteration(lines, iteration_num, mode) on fresh locals.
ProcessIteration(ls, id, m) == Finish(ScanAll(FreshLocals, m, ls), id, m)

\* The scan of the lines raises at one of them.
RECURSIVE ScanAllRaises(_, _, _)
ScanAllRaises(loc, m, ls) ==
    IF ls = <<>> THEN FALSE
    ELSE \/ ScanRaises(loc, m, Head(ls))
         \/ ScanAllRaises(ScanLine(loc, m, Head(ls)), m, Tail(ls))

\* process_iteration(lines, iteration_num, mode) raises instead of returning.
ProcessIterationRaises(ls, id, m) ==
    \/ ScanAllRaises(FreshLocals, m, ls)
    \/ FinishRaises(ScanAll(FreshLocals, m, ls), id)

\* ------------------------------------------------------------ the splitter

\* A log text is a sequence of symbols: the literal "ITERATION_" taken as one
\* symbol, digit characters, a letter and the newline.
TextSymbols == {"ITERATION_", "0", "1", "a", "\n"}

DigitChars == {"0", "1", "2", "3", "4", "5", "6", "7", "8", "9"}

\* The pattern ITERATION_(\d+) matches at position p of t.
MatchAt(t, p) ==
    /\ p < Len(t)
    /\ t[p] = "ITERATION_"
    /\ t[p + 1] \in DigitChars

\* The last position of the greedy \d+ that starts at position p of t.
RECURSIVE DigitsEnd(_, _)
DigitsEnd(t, p) ==
    IF p < Len(t) /\ t[p + 1] \in DigitChars THEN DigitsEnd(t, p + 1) ELSE p

\* re.split(r'ITERATION_(\d+)', t): the text before the first match, then for
\* every match its captured digits and the text up to the next match.
RECURSIVE ReSplitFrom(_, _, _, _)
ReSplitFrom(t, p, cur, out) ==
    IF p > Len(t) THEN Append(out, cur)
    ELSE IF MatchAt(t, p)
         THEN ReSplitFrom(t, DigitsEnd(t, p + 1) + 1, <<>>,
                          out \o <<cur, SubSeq(t, p + 1, DigitsEnd(t, p + 1))>>)
         ELSE ReSplitFrom(t, p + 1, Append(cur, t[p]), out)

ReSplit(t) == ReSplitFrom(t, 1, <<>>, <<>>)

\* The split without the fallback to one iteration "01".
SplitNoFallback(t) == Tail(ReSplit(t))

\* The split that keeps the text before the first delimiter.
SplitKeepHead(t) == ReSplit(t)

\* "iterations = re.split(...)[1:]; if not iterations: iterations = ['01', text]"
SplitIterations(t) ==
    IF Tail(ReSplit(t)) = <<>> THEN <<<<"0", "1">>, t>> ELSE Tail(ReSplit(t))

\* "for i in range(0, len(iterations), 2): if i+1 < len(iterations): ..."
PairUp(its) ==
    LET idx == {i \in 0..(Len(its) - 1) : i % 2 = 0 /\ i + 1 < Len(its)}
    IN [k \in 1..Cardinality(idx) |->
          [num |-> its[2 * (k - 1) + 1], content |-> its[2 * (k - 1) + 2]]]

\* ------------------------------------------------------------- variables

VARIABLES
    run_pc,              \* LogProcessor.run: "start", "paired" (in the loop),
                         \* "looped" (loop left, 100 sent), "emitted"
                         \* (result_ready sent), "failed" (except branch)
    log_content,         \* self.log_content
    run_mode,            \* self.mode
    iterations,          \* run's local iterations
    iteration_pairs,     \* run's local iteration_pairs
    run_idx,             \* number of passes of the processing loop made
    results,             \* run's local results
    progress,            \* the values emitted on progress_updated, in order
    signal               \* the result_ready and error_occurred emissions so far

VARIABLES
    ts_pc,               \* extract_start_timestamp: "call", "done"
    ts_mode,             \* the mode whose parser is asked
    ts_line,             \* the line handed to it
    ts_result            \* its return value

VARIABLES
    d_pc,                \* duration computation: "call", "done"
    d_start,             \* start_time
    d_stop,              \* max_height_end_time
    duration             \* duration after the division

VARIABLES
    self_results,        \* window: self.results
    batch_results,       \* window: self.batch_results, file name -> results
    loaded_files,        \* window: self.loaded_files
    all_iterations_data, \* window: self.all_iterations_data, as sections
    current_iteration,   \* window: self.current_iteration
    workers,             \* the LogProcessor threads started so far
    progress_visible,    \* window: progress_bar.isVisible()
    exports_enabled,     \* window: the export buttons are enabled
    status_label,        \* window: the text of status_label
    starts,              \* number of processing runs started so far
    last_run             \* the last of: no run yet, a batch run started on
                         \* these files, a single run started, clear_all ran

runVars ==
    <<run_pc, log_content, run_mode, iterations, iteration_pairs, run_idx,
      results, progress, signal>>
tsVars == <<ts_pc, ts_mode, ts_line, ts_result>>
durVars == <<d_pc, d_start, d_stop, duration>>
uiVars ==
    <<self_results, batch_results, loaded_files, all_iterations_data,
      current_iteration, workers, progress_visible, exports_enabled,
      status_label, starts, last_run>>
vars == <<iterVars, runVars, tsVars, durVars, uiVars>>

\* ------------------------------------------- process_iteration: the steps

SetLocals(loc) ==
    /\ start_time' = loc.start_time
    /\ start_line' = loc.start_line
    /\ current_marker' = loc.current_marker
    /\ heights_by_marker' = loc.heights_by_marker
    /\ end_times_by_marker' = loc.end_times_by_marker

\* A call that leaves current_marker as the previous call left it.
CallKeepMarker(id, m) ==
    /\ pc \in {"idle", "done", "raised"}
    /\ calls < MaxCalls
    /\ pc' = "scan"
    /\ calls' = calls + 1
    /\ mode' = m
    /\ iteration_num' = id
    /\ lines' = <<>>
    /\ SetLocals([FreshLocals EXCEPT !.current_marker = current_marker])
    /\ result' = None
    /\ UNCHANGED <<runVars, tsVars, durVars, uiVars>>

\* The caller hands over (lines, iteration_num, mode); the locals are set up.
Call(id, m) ==
    /\ pc \in {"idle", "done", "raised"}
    /\ calls < MaxCalls
    /\ pc' = "scan"
    /\ calls' = calls + 1
    /\ mode' = m
    /\ iteration_num' = id
    /\ lines' = <<>>
    /\ SetLocals(FreshLocals)
    /\ result' = None
    /\ UNCHANGED <<runVars, tsVars, durVars, uiVars>>

\* The first call of a processor.
FirstCall(id, m) == pc = "idle" /\ Call(id, m)

\* The for loop takes the next line of its argument; the call ends there
\* when the pass over the line raises.
Scan(line) ==
    /\ pc = "scan"
    /\ Len(lines) < MaxLines
    /\ lines' = Append(lines, line)
    /\ IF ScanRaises(Locals, mode, line)
       THEN /\ pc' = "raised"
            /\ SetLocals(ScanUntilRaise(Locals, mode, line))
       ELSE /\ pc' = pc
            /\ SetLocals(ScanLine(Locals, mode, line))
    /\ UNCHANGED <<mode, iteration_num, result, calls>>
    /\ UNCHANGED <<runVars, tsVars, durVars, uiVars>>

\* The line sequence is exhausted: the completeness test and the return, or
\* the ValueError of int(iteration_num).
Return ==
    /\ pc = "scan"
    /\ IF FinishRaises(Locals, iteration_num)
       THEN pc' = "raised" /\ result' = None
       ELSE pc' = "done" /\ result' = Finish(Locals, iteration_num, mode)
    /\ UNCHANGED <<mode, iteration_num, lines, start_time, start_line,
                   current_marker, heights_by_marker, end_times_by_marker, calls>>
    /\ UNCHANGED <<runVars, tsVars, durVars, uiVars>>

IterIdle ==
    /\ pc = "idle"
    /\ calls = 0
    /\ mode = "default"
    /\ iteration_num = <<1>>
    /\ lines = <<>>
    /\ start_time = None
    /\ start_line = ""
    /\ current_marker = <<>>
    /\ heights_by_marker = <<>>
    /\ end_times_by_marker = <<>>
    /\ result = None

\* ---------------------------------------------------- run: the split steps

\* All texts of at most n symbols.
RECURSIVE TextsUpTo(_)
TextsUpTo(n) ==
    IF n = 0 THEN {<<>>}
    ELSE TextsUpTo(n - 1) \cup
         {Append(t, c) : t \in {u \in TextsUpTo(n - 1) : Len(u) = n - 1},
                         c \in TextSymbols}

\* The values emitted on progress_updated up to the processing loop.
SplitProgress == <<10, 30, 50>>

\* run, from its entry to the end of the pairing loop.
RunSplit ==
    /\ run_pc = "start"
    /\ run_pc' = "paired"
    /\ iterations' = SplitIterations(log_content)
    /\ iteration_pairs' = PairUp(SplitIterations(log_content))
    /\ progress' = progress \o SplitProgress
    /\ UNCHANGED <<log_content, run_mode, run_idx, results, signal>>
    /\ UNCHANGED <<iterVars, tsVars, durVars, uiVars>>

\* The locals of run before its first statement.
RunFresh ==
    /\ run_pc = "start"
    /\ iterations = <<>>
    /\ iteration_pairs = <<>>
    /\ run_idx = 0
    /\ results = <<>>
    /\ progress = <<>>
    /\ signal = None

RunIdle ==
    /\ RunFresh
    /\ log_content = <<>>
    /\ run_mode = "default"

\* ------------------------------------------ run: the processing loop

\* Most iterations of one log.
MaxPairs == 3

\* A digit string one digit longer than int() converts.
OverlongDigits == [i \in 1..(MaxStrDigits + 1) |-> 1]

\* The line of LogLines with this text.
LineOf(body) == CHOOSE l \in LogLines : l.body = body

\* The texts an iteration is made of, named by the tap they record.
IterationTexts == {"tap, marker 2", "tap, marker 10", "tap, no end", "tap, overlong height"}

\* iteration_content.split('\n') for the texts of IterationTexts and "".
SplitLines(text) ==
    CASE text = "tap, marker 2" ->
            << LineOf("button 1 up 12345.678"),
               LineOf("[EPDC][2] Sending update. height=1200 waveform:0x2 (GC16)"),
               LineOf("update end marker=2 end time=12346000") >>
      [] text = "tap, marker 10" ->
            << LineOf("button 1 up 12345.678"),
               LineOf("[EPDC][10] Sending update. height=1200 waveform:0x2 (GC16)"),
               LineOf("update end marker=10 end time=1751099651234") >>
      [] text = "tap, no end" ->
            << LineOf("button 1 up 12345.678"),
               LineOf("[EPDC][2] Sending update. height=1200 waveform:0x2 (GC16)") >>
      [] text = "tap, overlong height" ->
            << LineOf("button 1 up 12345.678"),
               SendingLine("[EPDC][2] Sending update. height=111...1", <<2>>,
                           OverlongDigits, ""),
               LineOf("update end marker=2 end time=12346000") >>
      [] OTHER -> << BlankLine >>

\* A log: the text before the first header, then one section per
\* "ITERATION_<num>" header with the text that follows it. A log without a
\* header is all head; a log that add_iteration builds has an empty head.
Sections(n) == [1..n -> [num : IterationIds, content : IterationTexts]]
RunLogs ==
    { [head |-> h, sections |-> <<>>] : h \in {""} \cup IterationTexts } \cup
    { [head |-> "", sections |-> secs] :
        secs \in UNION {Sections(n) : n \in 1..MaxPairs} }

\* re.split(r'ITERATION_(\d+)', log)[1:] with its fallback, on a log given
\* by its sections: the ids and the texts in turn, or "01" and the whole log.
SplitSections(log) ==
    IF log.sections = <<>> THEN << <<0, 1>>, log.head >>
    ELSE [k \in 1..(2 * Len(log.sections)) |->
            IF k % 2 = 1 THEN log.sections[(k + 1) \div 2].num
            ELSE log.sections[k \div 2].content]

\* "result['original_log'] = iteration_content.strip()"
WithOriginalLog(r, content) ==
    [f \in DOMAIN r \cup {"original_log"} |->
        IF f = "original_log" THEN content ELSE r[f]]

\* An append that replaces the record of the same iteration id, if any.
AppendOncePerId(rs, r) ==
    IF \E k \in 1..Len(rs) : rs[k].iteration = r.iteration
    THEN [k \in 1..Len(rs) |-> IF rs[k].iteration = r.iteration THEN r ELSE rs[k]]
    ELSE Append(rs, r)

\* "results.append(result)"
ResultsAppend(rs, r) == Append(rs, r)

\* The progress of the loop alone, without the 50 of the split.
LoopProgressFromZero(idx, total) == ((idx + 1) * 40) \div total

\* "progress = 50 + (idx + 1) * 40 // total_iterations"
LoopProgress(idx, total) == 50 + ((idx + 1) * 40) \div total

\* run's final emissions
ResultReady(rs, total) ==
    Some([name |-> "result_ready", results |-> rs, total_iterations |-> total])
ErrorOccurred == Some([name |-> "error_occurred"])

\* run, lines 19 to 36, on a log given by its sections.
RunSplitSections ==
    /\ run_pc = "start"
    /\ run_pc' = "paired"
    /\ iterations' = SplitSections(log_content)
    /\ iteration_pairs' = PairUp(SplitSections(log_content))
    /\ progress' = progress \o SplitProgress
    /\ UNCHANGED <<log_content, run_mode, run_idx, results, signal>>
    /\ UNCHANGED <<iterVars, tsVars, durVars, uiVars>>

\* One pass of "for idx, (iteration_num, iteration_content) in enumerate(...)":
\* an exception of process_iteration leaves the loop for the except branch.
RunIteration ==
    /\ run_pc = "paired"
    /\ run_idx < Len(iteration_pairs)
    /\ LET pair == iteration_pairs[run_idx + 1]
           ls == SplitLines(pair.content)
       IN IF ProcessIterationRaises(ls, pair.num, run_mode)
          THEN /\ run_pc' = "failed"
               /\ signal' = signal \o ErrorOccurred
               /\ UNCHANGED <<run_idx, results, progress>>
          ELSE /\ results' =
                    IF ProcessIteration(ls, pair.num, run_mode) # None
                    THEN ResultsAppend(results,
                             WithOriginalLog(ProcessIteration(ls, pair.num, run_mode)[1],
                                             pair.content))
                    ELSE results
               /\ run_idx' = run_idx + 1
               /\ progress' = Append(progress,
                                     LoopProgress(run_idx, Len(iteration_pairs)))
               /\ UNCHANGED <<run_pc, signal>>
    /\ UNCHANGED <<log_content, run_mode, iterations, iteration_pairs>>
    /\ UNCHANGED <<iterVars, tsVars, durVars, uiVars>>

\* The loop is over: "self.progress_updated.emit(100)".
RunLoopEnd ==
    /\ run_pc = "paired"
    /\ run_idx = Len(iteration_pairs)
    /\ run_pc' = "looped"
    /\ progress' = Append(progress, 100)
    /\ UNCHANGED <<log_content, run_mode, iterations, iteration_pairs, run_idx,
                   results, signal>>
    /\ UNCHANGED <<iterVars, tsVars, durVars, uiVars>>

\* "self.result_ready.emit(...)"
RunEmit ==
    /\ run_pc = "looped"
    /\ run_pc' = "emitted"
    /\ signal' = signal \o ResultReady(results, Len(iteration_pairs))
    /\ UNCHANGED <<log_content, run_mode, iterations, iteration_pairs, run_idx,
                   results, progress>>
    /\ UNCHANGED <<iterVars, tsVars, durVars, uiVars>>

\* ------------------------------------------ the whole run as a function

\* The processing loop raises at one of the pairs.
RECURSIVE LoopRaises(_, _)
LoopRaises(pairs, m) ==
    IF pairs = <<>> THEN FALSE
    ELSE \/ ProcessIterationRaises(SplitLines(Head(pairs).content), Head(pairs).num, m)
         \/ LoopRaises(Tail(pairs), m)

\* The list the processing loop collects.
RECURSIVE LoopResults(_, _, _)
LoopResults(rs, pairs, m) ==
    IF pairs = <<>> THEN rs
    ELSE LET r == ProcessIteration(SplitLines(Head(pairs).content), Head(pairs).num, m)
         IN LoopResults(IF r # None
                        THEN ResultsAppend(rs, WithOriginalLog(r[1], Head(pairs).content))
                        ELSE rs,
                        Tail(pairs), m)

\* What LogProcessor(log, m).run() emits last: result_ready or error_occurred.
RunSignal(log, m) ==
    LET pairs == PairUp(SplitSections(log)) IN
    IF LoopRaises(pairs, m) THEN ErrorOccurred
    ELSE ResultReady(LoopResults(<<>>, pairs, m), Len(pairs))

\* ------------------------------------------------------ the main window

\* Most files of one selection.
MaxFiles == 2

\* Most processing runs started in one session.
MaxStarts == 2

\* Most iterations added in one session.
MaxAdds == 2

\* self.current_mode as __init__ sets it.
CurrentMode == "default"

\* The files of the file dialog: two of the same name in two directories,
\* one of another name, one with a height that int() refuses, one that
\* cannot be opened.
FilePaths ==
    << [dir |-> "a", base |-> "gone.log"], [dir |-> "a", base |-> "long.log"],
       [dir |-> "a", base |-> "x.log"], [dir |-> "a", base |-> "y.log"],
       [dir |-> "b", base |-> "x.log"] >>

\* open(file_path) succeeds.
Readable(path) == path.base # "gone.log"

\* f.read()
FileLog(path) ==
    CASE path = [dir |-> "a", base |-> "x.log"] ->
            [head |-> "tap, marker 2", sections |-> <<>>]
      [] path = [dir |-> "b", base |-> "x.log"] ->
            [head |-> "", sections |-> <<[num |-> <<0, 2>>, content |-> "tap, marker 10"]>>]
      [] path = [dir |-> "a", base |-> "y.log"] ->
            [head |-> "tap, marker 10", sections |-> <<>>]
      [] OTHER ->
            [head |-> "tap, overlong height", sections |-> <<>>]

\* The selections QFileDialog.getOpenFileNames returns: distinct paths, in
\* the order of the dialog.
Selections ==
    { [i \in 1..Len(pick) |-> FilePaths[pick[i]]] :
        pick \in { p \in UNION {[1..n -> 1..Len(FilePaths)] : n \in 1..MaxFiles} :
                     \A i, j \in 1..Len(p) : i < j => p[i] < p[j] } }

\* f"{n:02d}"
TwoDigits(n) == IF n < 10 THEN <<0, n>> ELSE <<n \div 10, n % 10>>

\* The texts the user pastes into log_input.
PastedTexts == {"tap, marker 2", "tap, no end"}

\* The text of status_label, with the number its message carries.
Status(text, n) == [text |-> text, files |-> n]

\* "self.batch_results[filename] = results"
MapPut(map, key, value) ==
    [k \in DOMAIN map \cup {key} |-> IF k = key THEN value ELSE map[k]]

\* The empty dict.
EmptyMap == [k \in {} |-> <<>>]

\* A started LogProcessor: what it was created with, how its signals are
\* connected, the run that started it, and whether its thread has ended.
Worker(kind, path, log, run) ==
    [kind |-> kind, path |-> path, filename |-> path.base, log |-> log,
     run |-> run, done |-> FALSE]

\* What the session did last about runs, with the files of a batch run.
LastRun(kind, files) == [kind |-> kind, files |-> files]

\* Not a file: the path of the worker of a single-entry run.
NoPath == [dir |-> "", base |-> ""]

\* select_batch_files: the dialog returns a non-empty selection.
SelectBatchFiles(files) ==
    /\ starts < MaxStarts
    /\ loaded_files' = files
    /\ UNCHANGED <<self_results, batch_results, all_iterations_data,
                   current_iteration, workers, progress_visible, exports_enabled,
                   status_label, starts, last_run>>
    /\ UNCHANGED <<iterVars, runVars, tsVars, durVars>>

\* The readable files of a list, as workers, in the order of the list.
RECURSIVE BatchWorkers(_, _)
BatchWorkers(files, run) ==
    IF files = <<>> THEN <<>>
    ELSE IF Readable(Head(files))
         THEN <<Worker("batch", Head(files), FileLog(Head(files)), run)>>
              \o BatchWorkers(Tail(files), run)
         ELSE BatchWorkers(Tail(files), run)

\* process_batch_files
ProcessBatchFiles ==
    /\ loaded_files # <<>>
    /\ starts < MaxStarts
    /\ starts' = starts + 1
    /\ status_label' = Status("Processing batch files...", 0)
    /\ batch_results' = EmptyMap
    /\ workers' = workers \o BatchWorkers(loaded_files, starts + 1)
    /\ last_run' = LastRun("batch", loaded_files)
    /\ UNCHANGED <<self_results, loaded_files, all_iterations_data,
                   current_iteration, progress_visible, exports_enabled>>
    /\ UNCHANGED <<iterVars, runVars, tsVars, durVars>>

\* on_batch_processing_complete(data, filename)
OnBatchProcessingComplete(data, filename) ==
    /\ batch_results' = MapPut(batch_results, filename, data.results)
    /\ IF Cardinality(DOMAIN MapPut(batch_results, filename, data.results))
            = Len(loaded_files)
       THEN /\ progress_visible' = FALSE
            /\ exports_enabled' = TRUE
            /\ status_label' = Status("Processed files", Len(loaded_files))
       ELSE UNCHANGED <<progress_visible, exports_enabled, status_label>>
    /\ UNCHANGED self_results

\* on_single_processing_complete(data)
OnSingleProcessingComplete(data) ==
    /\ self_results' = data.results
    /\ progress_visible' = FALSE
    /\ exports_enabled' = TRUE
    /\ status_label' = Status("Processed successfully", 0)
    /\ UNCHANGED batch_results

\* on_processing_error(error)
OnProcessingError ==
    /\ progress_visible' = FALSE
    /\ status_label' = Status("Processing failed", 0)
    /\ UNCHANGED <<self_results, batch_results, exports_enabled>>

\* The thread of worker i runs to its end and the slot connected to the
\* signal it emits, if any, runs in the window.
WorkerDone(i) ==
    /\ i \in 1..Len(workers)
    /\ ~workers[i].done
    /\ workers' = [workers EXCEPT ![i].done = TRUE]
    /\ LET sig == RunSignal(workers[i].log, CurrentMode)[1] IN
       IF workers[i].kind = "batch"
       THEN IF sig.name = "result_ready"
            THEN OnBatchProcessingComplete(sig, workers[i].filename)
            ELSE UNCHANGED <<self_results, batch_results, progress_visible,
                             exports_enabled, status_label>>
       ELSE IF sig.name = "result_ready"
            THEN OnSingleProcessingComplete(sig)
            ELSE OnProcessingError
    /\ UNCHANGED <<loaded_files, all_iterations_data, current_iteration, starts,
                   last_run>>
    /\ UNCHANGED <<iterVars, runVars, tsVars, durVars>>

\* add_iteration with a non-empty text in log_input
AddIteration(text) ==
    /\ starts < MaxStarts
    /\ current_iteration <= MaxAdds
    /\ all_iterations_data' =
          Append(all_iterations_data,
                 [num |-> TwoDigits(current_iteration), content |-> text])
    /\ current_iteration' = current_iteration + 1
    /\ status_label' = Status("Added iteration. Ready for next iteration.",
                              current_iteration)
    /\ UNCHANGED <<self_results, batch_results, loaded_files, workers,
                   progress_visible, exports_enabled, starts, last_run>>
    /\ UNCHANGED <<iterVars, runVars, tsVars, durVars>>

\* Most symbols of a text pasted into log_input.
MaxPaste == 2

\* The characters of the digits 0 to 9.
DigitSymbols == <<"0", "1", "2", "3", "4", "5", "6", "7", "8", "9">>

\* f"\nITERATION_{n:02d}\n" as a symbol text.
IterationHeader(n) ==
    <<"\n", "ITERATION_">>
    \o [i \in 1..Len(TwoDigits(n)) |-> DigitSymbols[TwoDigits(n)[i] + 1]]
    \o <<"\n">>

\* str.strip() on a symbol text, whose only whitespace is the newline.
RECURSIVE Strip(_)
Strip(t) ==
    IF t = <<>> THEN t
    ELSE IF Head(t) = "\n" THEN Strip(Tail(t))
    ELSE IF t[Len(t)] = "\n" THEN Strip(SubSeq(t, 1, Len(t) - 1))
    ELSE t

\* add_iteration with any text in log_input, the accumulated text kept as a
\* symbol text: an empty or blank text gets the warning and changes nothing.
AddIterationText(text) ==
    /\ current_iteration <= MaxAdds
    /\ IF Strip(text) = <<>>
       THEN UNCHANGED <<all_iterations_data, current_iteration, status_label>>
       ELSE /\ all_iterations_data' =
                  all_iterations_data \o IterationHeader(current_iteration)
                  \o Strip(text) \o <<"\n">>
            /\ current_iteration' = current_iteration + 1
            /\ status_label' = Status("Added iteration. Ready for next iteration.",
                                      current_iteration)
    /\ UNCHANGED <<self_results, batch_results, loaded_files, workers,
                   progress_visible, exports_enabled, starts, last_run>>
    /\ UNCHANGED <<iterVars, runVars, tsVars, durVars>>

\* process_all_iterations
ProcessAllIterations ==
    /\ all_iterations_data # <<>>
    /\ starts < MaxStarts
    /\ starts' = starts + 1
    /\ progress_visible' = TRUE
    /\ status_label' = Status("Processing iterations...", 0)
    /\ workers' = Append(workers,
                         Worker("single", NoPath,
                                [head |-> "", sections |-> all_iterations_data],
                                starts + 1))
    /\ last_run' = LastRun("single", <<>>)
    /\ UNCHANGED <<self_results, batch_results, loaded_files,
                   all_iterations_data, current_iteration, exports_enabled>>
    /\ UNCHANGED <<iterVars, runVars, tsVars, durVars>>

\* clear_all
ClearAll ==
    /\ self_results' = <<>>
    /\ batch_results' = EmptyMap
    /\ loaded_files' = <<>>
    /\ all_iterations_data' = <<>>
    /\ current_iteration' = 1
    /\ exports_enabled' = FALSE
    /\ status_label' = Status("Ready", 0)
    /\ last_run' = LastRun("cleared", <<>>)
    /\ UNCHANGED <<workers, progress_visible, starts>>
    /\ UNCHANGED <<iterVars, runVars, tsVars, durVars>>

\* The window after __init__.
UiIdle ==
    /\ self_results = <<>>
    /\ batch_results = EmptyMap
    /\ loaded_files = <<>>
    /\ all_iterations_data = <<>>
    /\ current_iteration = 1
    /\ workers = <<>>
    /\ progress_visible = FALSE
    /\ exports_enabled = FALSE
    /\ status_label = Status("Ready", 0)
    /\ starts = 0
    /\ last_run = LastRun("none", <<>>)

\* ------------------------------------------ extract_start_timestamp alone

\* The digits a captured timestamp is written with.
SampleDigits == {0, 7}

RECURSIVE DigitStringsOfLen(_)
DigitStringsOfLen(n) ==
    IF n = 0 THEN {<<>>}
    ELSE {Append(ds, d) : ds \in DigitStringsOfLen(n - 1), d \in SampleDigits}

\* The non-empty digit strings of at most MaxDigits digits.
DigitStrings == UNION {DigitStringsOfLen(n) : n \in 1..MaxDigits}

StartEvents == {"button_up", "button_down", "pbpress"}

TsExtract ==
    /\ ts_pc = "call"
    /\ ts_pc' = "done"
    /\ ts_result' = extract_start_timestamp(ts_mode, ts_line)
    /\ UNCHANGED <<ts_mode, ts_line, iterVars, runVars, durVars, uiVars>>

TsIdle ==
    /\ ts_pc = "call"
    /\ ts_mode = "default"
    /\ ts_line = NoLine
    /\ ts_result = None

\* ----------------------------------------------- the duration computation

\* Timestamps of the 6-digit ring: its ends, the values of the documented
\* examples and values around the seconds boundary.
SampleTimes ==
    {0, 1, 999, 1000, 345678, 346000, 650205, 651234, 999998, 999999}

\* Lines 150-156 of process_iteration.
ComputeDuration ==
    /\ d_pc = "call"
    /\ d_pc' = "done"
    /\ duration' = ToSeconds(DurationMs(d_stop, d_start))
    /\ UNCHANGED <<d_start, d_stop, iterVars, runVars, tsVars, uiVars>>

DurIdle ==
    /\ d_pc = "call"
    /\ d_start = 0
    /\ d_stop = 0
    /\ duration = ToSeconds(0)

\* ------------------------------------------------------- specifications

\* The id of a single run, as add_iteration writes it.
SingleRunIds == {<<0, 2>>}

\* One call of process_iteration on any line sequence of LogLines.
IterInit == IterIdle /\ UiIdle /\ RunIdle /\ TsIdle /\ DurIdle
IterNext ==
    \/ \E id \in SingleRunIds, m \in Modes : FirstCall(id, m)
    \/ \E line \in LogLines : Scan(line)
    \/ Return
SpecIter == IterInit /\ [][IterNext]_vars

\* Calls of process_iteration one after the other on the same processor.
RepeatNext ==
    \/ \E id \in IterationIds, m \in Modes : Call(id, m)
    \/ \E line \in RepeatLines : Scan(line)
    \/ Return
SpecRepeat == IterInit /\ [][RepeatNext]_vars

\* The iteration ids of the callers: the digits of a header, and the ids "A"
\* and "B" of the comparison view, each character that is no digit given as
\* its code point.
CallerIds == {<<0, 2>>, <<65>>, <<66>>}

\* The mode strings of the callers, and one that names no parser.
CallerModes == Modes \cup {"SUSPEND"}

\* The lines of the specification of the arguments.
CallerLines ==
    StartLines \cup
    { l \in LogLines :
        l.body \in { "[EPDC][2] Sending update. height=1200 waveform:0x2 (GC16)",
                     "update end marker=2 end time=12346000" } }

\* One call of process_iteration with any id and any mode string.
ArgsNext ==
    \/ \E id \in CallerIds, m \in CallerModes : FirstCall(id, m)
    \/ \E line \in CallerLines : Scan(line)
    \/ Return
SpecArgs == IterInit /\ [][ArgsNext]_vars

\* Lines of no event category, and height lines whose waveform name is
\* "auto" or "UNKNOWN", next to a start, a marker, two height lines and an end.
WaveLines ==
    { BlankLine,
      [NoLine EXCEPT !.body = "usb: device connected"],
      [NoLine EXCEPT !.body = "Sending update. waveform:0x2 (GC16)",
                     !.sending = TRUE, !.waveform = "GC16"],
      SendingLine("[EPDC][3] Sending update. height=1600 waveform:0x101 (auto)",
                  <<3>>, <<1,6,0,0>>, "auto"),
      SendingLine("[EPDC][4] Sending update. height=1700 waveform:0x0 (UNKNOWN)",
                  <<4>>, <<1,7,0,0>>, "UNKNOWN") } \cup
    { l \in LogLines :
        l.body \in { "button 1 up 12345.678",
                     "mxc_epdc_fb: [1]",
                     "Sending update. height=800, waveform=DU",
                     "[EPDC][2] Sending update. height=1200 waveform:0x2 (GC16)",
                     "update end marker=2 end time=12346000" } }

\* One call of process_iteration on any line sequence of WaveLines.
WaveNext ==
    \/ \E id \in SingleRunIds : FirstCall(id, "default")
    \/ \E line \in WaveLines : Scan(line)
    \/ Return
SpecWave == IterInit /\ [][WaveNext]_vars

\* The split of any text of at most MaxText symbols.
SplitInit ==
    /\ IterIdle /\ UiIdle /\ TsIdle /\ DurIdle
    /\ RunFresh
    /\ log_content \in TextsUpTo(MaxText)
    /\ run_mode = "default"
SplitNext == RunSplit
SpecSplit == SplitInit /\ [][SplitNext]_vars

\* The modes of the runs of the processing loop.
RunModes == {"default", "suspend"}

\* One run of a LogProcessor on any log of at most MaxPairs sections.
RunInit ==
    /\ IterIdle /\ UiIdle /\ TsIdle /\ DurIdle
    /\ RunFresh
    /\ log_content \in RunLogs
    /\ run_mode \in RunModes
RunNext ==
    \/ RunSplitSections
    \/ RunIteration
    \/ RunLoopEnd
    \/ RunEmit
SpecRun == RunInit /\ [][RunNext]_vars

\* A session of the main window: selections, runs, workers ending in any
\* order, and clears.
UiInit == IterIdle /\ UiIdle /\ RunIdle /\ TsIdle /\ DurIdle
UiNext ==
    \/ \E files \in Selections : SelectBatchFiles(files)
    \/ ProcessBatchFiles
    \/ \E text \in PastedTexts : AddIteration(text)
    \/ ProcessAllIterations
    \/ \E i \in 1..Len(workers) : WorkerDone(i)
    \/ ClearAll
SpecUi == UiInit /\ [][UiNext]_vars

\* Iterations added to a session as texts of at most MaxPaste symbols.
AddNext ==
    \/ \E text \in TextsUpTo(MaxPaste) : AddIterationText(text)
    \/ ClearAll
SpecAdd == UiInit /\ [][AddNext]_vars

\* extract_start_timestamp of each parser on each start line.
TsInit ==
    /\ IterIdle /\ UiIdle /\ RunIdle /\ DurIdle
    /\ ts_pc = "call"
    /\ ts_mode \in Modes
    /\ ts_line \in {StartLine("start event", ev, secs, frac) :
                      ev \in StartEvents, secs \in DigitStrings, frac \in DigitStrings}
    /\ ts_result = None
TsNext == TsExtract
SpecTs == TsInit /\ [][TsNext]_vars

\* The duration of each pair of sample timestamps.
DurInit ==
    /\ IterIdle /\ UiIdle /\ RunIdle /\ TsIdle
    /\ d_pc = "call"
    /\ d_start \in SampleTimes
    /\ d_stop \in SampleTimes
    /\ duration = ToSeconds(0)
DurNext == ComputeDuration
SpecDur == DurInit /\ [][DurNext]_vars

\* ==================================================================== claims

\* The start event the parser of mode m looks for.
StartEventOf(m) ==
    IF m = "suspend" THEN "pbpress"
    ELSE IF m = "swipe" THEN "button_down"
    ELSE "button_up"

\* The line sequence holds a start event of the selected mode.
HasStartEvent ==
    \E i \in 1..Len(lines) : lines[i].ev = StartEventOf(mode)

\* The line sequence holds a height event at or after a line with a marker.
HasHeightEvent ==
    \E i \in 1..Len(lines) :
        /\ lines[i].sending
        /\ lines[i].height # <<>>
        /\ \E j \in 1..i : lines[j].marker # <<>>

\* The line sequence holds an update-end event with an end time.
HasEndEvent ==
    \E i \in 1..Len(lines) : lines[i].endMarker # <<>> /\ lines[i].endTime # <<>>

\* The result of a returned call, when there is one.
Returned == pc = "done" /\ result # None

\* The duration of a result in milliseconds.
Millis(d) == d.seconds * MsPerSecond + d.millis

\* C1: a line sequence with a start event of the selected mode, a height
\* event under a marker and an update-end event with an end time always
\* yields a result, whatever the timestamps in 0..999999.
C1_AlwaysResult ==
    (pc = "done" /\ HasStartEvent /\ HasHeightEvent /\ HasEndEvent)
        => result # None

\* The fields of the result dict.
ResultFields ==
    {"iteration", "start", "stop", "marker", "duration", "max_height",
     "max_height_waveform", "start_line", "all_heights", "mode", "all_end_times"}

\* C2: process_iteration returns absent whenever the lines yield no start
\* timestamp, no height record or no end-time record; what it returns
\* otherwise is a whole record, never a partial one.
C2_ResultOnlyIfComplete ==
    pc = "done" =>
        /\ ( \/ ~HasStartEvent \/ start_time = None
             \/ ~HasHeightEvent \/ heights_by_marker = <<>>
             \/ ~HasEndEvent \/ end_times_by_marker = <<>> ) => result = None
        /\ result # None => DOMAIN result[1] = ResultFields

\* A call that found a start time and a height record, but no end time.
C2_Witness ==
    /\ pc = "done"
    /\ result = None
    /\ start_time # None
    /\ heights_by_marker # <<>>
    /\ end_times_by_marker = <<>>

\* C3: for start and end timestamps in 0..999999 the corrected difference
\* lies in 0..999999, so the duration is non-negative and below 1000 s.
C3_DurationInRing ==
    d_pc = "done" =>
        /\ Millis(duration) \in 0..(Rollover - 1)
        /\ Millis(duration) \in {d_stop - d_start, d_stop - d_start + Rollover}
        /\ duration.seconds \in 0..999
        /\ duration.millis \in 0..999

\* The largest rollover: the end one millisecond after a start at 999999.
C3_Witness ==
    /\ d_pc = "done"
    /\ d_start = 999999
    /\ d_stop = 0
    /\ duration = [seconds |-> 0, millis |-> 1]

\* C4: the duration of a result, in milliseconds, is (stop - start) modulo
\* 1,000,000, with start the start time found and stop a recorded end time;
\* 345678 to 346000 is 0.322 s and 650205 to 651234 is 1.029 s.
C4_DurationModulo ==
    Returned =>
        LET r == result[1] IN
        /\ Millis(r.duration) = (r.stop - r.start) % Rollover
        /\ r.start = start_time[1]
        /\ \E i \in 1..Len(end_times_by_marker) : end_times_by_marker[i].time = r.stop
        /\ (r.start = 345678 /\ r.stop = 346000)
              => r.duration = [seconds |-> 0, millis |-> 322]
        /\ (r.start = 650205 /\ r.stop = 651234)
              => r.duration = [seconds |-> 1, millis |-> 29]

\* A result whose stop is numerically before its start.
C4_Witness ==
    /\ Returned
    /\ result[1].stop < result[1].start
    /\ Millis(result[1].duration) = result[1].stop - result[1].start + Rollover

\* The positions of heights_by_marker that are candidates for the maximum:
\* those with a known waveform, or all when there is none.
Candidates ==
    LET known == {i \in 1..Len(heights_by_marker) :
                    Lower(heights_by_marker[i].waveform) # "unknown"}
    IN IF known # {} THEN known ELSE 1..Len(heights_by_marker)

\* The candidates of maximal height.
Tied ==
    {i \in Candidates :
        \A j \in Candidates :
            heights_by_marker[j].height <= heights_by_marker[i].height}

\* C5: among the markers that share the maximum candidate height the result
\* has the one of numerically largest id, whatever the insertion order.
C5_TieBreakLargestId ==
    Returned =>
        /\ \E i \in Tied : heights_by_marker[i].marker = result[1].marker
        /\ \A i \in Tied :
              IntOf(heights_by_marker[i].marker) <= IntOf(result[1].marker)

\* A tie in which the chosen marker was inserted before another tied marker.
C5_Witness ==
    /\ Returned
    /\ \E i, j \in Tied :
          /\ i < j
          /\ heights_by_marker[i].marker = result[1].marker

\* Every recorded height has waveform "unknown".
AllUnknown ==
    /\ heights_by_marker # <<>>
    /\ \A i \in 1..Len(heights_by_marker) :
          heights_by_marker[i].waveform = "unknown"

\* C6: with a start time, an end time and only "unknown" waveforms the call
\* still returns a result, for a marker of maximal height among all records.
C6_UnknownFallback ==
    (pc = "done" /\ start_time # None /\ end_times_by_marker # <<>> /\ AllUnknown)
        => /\ result # None
           /\ \E i \in 1..Len(heights_by_marker) :
                 /\ heights_by_marker[i].marker = result[1].marker
                 /\ heights_by_marker[i].height = result[1].max_height
                 /\ \A j \in 1..Len(heights_by_marker) :
                       heights_by_marker[j].height <= heights_by_marker[i].height
           /\ result[1].max_height_waveform = "unknown"

\* A result for an iteration without any known waveform.
C6_Witness == Returned /\ AllUnknown

\* C7: what a call returns depends on its arguments alone: after any calls
\* made before it, it is the result of the same arguments on fresh locals.
C7_NoStateBetweenCalls ==
    pc = "done" => result = ProcessIteration(lines, iteration_num, mode)

\* A second call that returns a result.
C7_Witness == Returned /\ calls = 2

\* The text holds no ITERATION_<digits> delimiter.
NoDelimiter(t) ==
    ~ \E p \in 1..(Len(t) - 1) : t[p] = "ITERATION_" /\ t[p + 1] \in DigitChars

\* C8: a text without a delimiter, the empty text included, splits into the
\* one pair ("01", the whole text).
C8_NoDelimiterOnePair ==
    (run_pc = "paired" /\ NoDelimiter(log_content))
        => iteration_pairs = <<[num |-> <<"0", "1">>, content |-> log_content]>>

\* A split text that holds the literal ITERATION_ but never before a digit.
C8_Witness ==
    /\ run_pc = "paired"
    /\ NoDelimiter(log_content)
    /\ \E p \in 1..Len(log_content) : log_content[p] = "ITERATION_"
    /\ Len(iteration_pairs) = 1

\* The positions of the delimiters of the text, and the i-th of them.
DelimiterStarts(t) ==
    {p \in 1..(Len(t) - 1) : t[p] = "ITERATION_" /\ t[p + 1] \in DigitChars}

NthDelimiter(t, i) ==
    CHOOSE p \in DelimiterStarts(t) :
        Cardinality({q \in DelimiterStarts(t) : q < p}) = i - 1

\* The last digit of the delimiter that starts at p.
DelimiterEnd(t, p) ==
    CHOOSE e \in (p + 1)..Len(t) :
        /\ \A q \in (p + 1)..e : t[q] \in DigitChars
        /\ e = Len(t) \/ t[e + 1] \notin DigitChars

\* C9: a text with k >= 1 delimiters splits into k pairs in document order,
\* the i-th with the digits of the i-th delimiter and the text from there to
\* the next delimiter or the end; the text before the first is in no pair.
C9_OnePairPerDelimiter ==
    (run_pc = "paired" /\ DelimiterStarts(log_content) # {}) =>
        LET t == log_content
            k == Cardinality(DelimiterStarts(t))
        IN /\ Len(iteration_pairs) = k
           /\ \A i \in 1..k :
                LET p == NthDelimiter(t, i)
                    e == DelimiterEnd(t, p)
                    next == IF i < k THEN NthDelimiter(t, i + 1) ELSE Len(t) + 1
                IN /\ iteration_pairs[i].num = SubSeq(t, p + 1, e)
                   /\ iteration_pairs[i].content = SubSeq(t, e + 1, next - 1)

\* Two delimiters after some leading text.
C9_Witness ==
    /\ run_pc = "paired"
    /\ Cardinality(DelimiterStarts(log_content)) = 2
    /\ 1 \notin DelimiterStarts(log_content)
    /\ Len(iteration_pairs) = 2

RECURSIVE Pow10(_)
Pow10(n) == IF n = 0 THEN 1 ELSE 10 * Pow10(n - 1)

\* The milliseconds of a fractional part: floor(0.<frac> * 1000).
FractionMillis(frac) == (IntOf(frac) * MsPerSecond) \div Pow10(Len(frac))

\* C10: every parser returns (seconds mod 1000) * 1000 + the milliseconds of
\* the fraction, for a fraction of any length.
C10_MillisecondRing ==
    (ts_pc = "done" /\ ts_result # None) =>
        ts_result[1] = (IntOf(ts_line.secs) % 1000) * 1000
                         + FractionMillis(ts_line.frac)

\* The number a digit string denotes, modulo m.
RECURSIVE DigitsMod(_, _)
DigitsMod(ds, m) ==
    IF ds = <<>> THEN 0
    ELSE (DigitsMod(SubSeq(ds, 1, Len(ds) - 1), m) * 10 + ds[Len(ds)]) % m

\* C11: in every result start and stop are in 0..999999, and every time of
\* all_end_times is in 0..999999 and is the end-time digit string of its
\* line modulo 1,000,000.
C11_TimestampsInRing ==
    Returned =>
        LET r == result[1] IN
        /\ r.start \in 0..(Rollover - 1)
        /\ r.stop \in 0..(Rollover - 1)
        /\ \A i \in 1..Len(r.all_end_times) :
              LET e == r.all_end_times[i] IN
              /\ e.time \in 0..(Rollover - 1)
              /\ \E j \in 1..Len(lines) :
                    /\ lines[j].endMarker = e.marker
                    /\ lines[j].body = e.line
                    /\ e.time = DigitsMod(lines[j].endTime, Rollover)

\* A result with an end time cut from a digit string of more than 6 digits.
C11_Witness ==
    /\ Returned
    /\ \E j \in 1..Len(lines) :
          /\ Len(lines[j].endTime) > EndDigits
          /\ \E i \in 1..Len(result[1].all_end_times) :
                result[1].all_end_times[i].line = lines[j].body

\* The fields of the IterationResult record of the data model.
DataModelFields ==
    {"iteration", "start", "stop", "marker", "duration", "max_height",
     "max_height_waveform", "start_line", "stop_line", "height_line",
     "all_heights", "mode", "all_end_times"}

\* C12: every result carries every field of the IterationResult record,
\* stop_line and height_line included.
C12_AllDataModelFields ==
    Returned => DataModelFields \subseteq DOMAIN result[1]

\* The positions of the start events of the selected mode in the lines.
StartEventLines ==
    {i \in 1..Len(lines) : lines[i].ev = StartEventOf(mode)}

\* C20: the start of a result is the normalized timestamp of the first start
\* event of the iteration, and its start_line is that line, whatever the
\* value of the timestamp in 0..999999.
C20_FirstStartWins ==
    Returned =>
        \E i \in StartEventLines :
            /\ \A j \in StartEventLines : i <= j
            /\ result[1].start = Normalize(lines[i].secs, lines[i].frac)
            /\ result[1].start_line = lines[i].body

\* C13: process_iteration never raises, whatever the lines, the iteration id
\* (numeric or not) and the mode string.
C13_NeverRaises == pc # "raised"

\* C19: the start time is set by a start event of the parser the mode string
\* selects ("suspend" and "swipe" their own, every other string the button up
\* parser) and by no start event of another mode, and the mode field of a
\* result is the mode string as passed.
C19_ModeSelectsParser ==
    /\ Truthy(start_time) =>
          \E i \in 1..Len(lines) :
              /\ lines[i].ev = StartEventOf(mode)
              /\ start_time[1] = Normalize(lines[i].secs, lines[i].frac)
              /\ start_line = lines[i].body
    /\ (\E i \in 1..Len(lines) :
            /\ lines[i].ev = StartEventOf(mode)
            /\ Normalize(lines[i].secs, lines[i].frac) # 0) => Truthy(start_time)
    /\ Returned => result[1].mode = mode

\* A result of a call whose mode string names no parser: the start comes from
\* a button up event that follows a power button event.
C19_Witness ==
    /\ Returned
    /\ mode = "SUSPEND"
    /\ result[1].mode = "SUSPEND"
    /\ \E i, j \in 1..Len(lines) :
          /\ i < j
          /\ lines[i].ev = "pbpress"
          /\ lines[j].ev = "button_up"
          /\ result[1].start_line = lines[j].body

\* The run is over: result_ready or error_occurred has been emitted.
RunOver == run_pc \in {"emitted", "failed"}

\* The pairs of the run whose processing returns a result.
YieldingPairs ==
    {i \in 1..Len(iteration_pairs) :
        LET pair == iteration_pairs[i] IN
        /\ ~ProcessIterationRaises(SplitLines(pair.content), pair.num, run_mode)
        /\ ProcessIteration(SplitLines(pair.content), pair.num, run_mode) # None}

\* The delivered result list holds a record of the pair at position i.
Delivered(i) ==
    /\ signal # None
    /\ signal[1].name = "result_ready"
    /\ \E k \in 1..Len(signal[1].results) :
          /\ signal[1].results[k].iteration = IntOf(iteration_pairs[i].num)
          /\ signal[1].results[k].original_log = iteration_pairs[i].content

\* C14: when the run is over, the result of every iteration whose processing
\* returns one has been delivered, also when a sibling iteration raised.
C14_SiblingsDelivered ==
    RunOver => \A i \in YieldingPairs : Delivered(i)

\* The position in the pairs of the k-th pair that yields a result.
NthYielding(k) ==
    CHOOSE i \in YieldingPairs :
        Cardinality({j \in YieldingPairs : j <= i}) = k

\* C18: the delivered result list holds, in split order, exactly one record
\* per pair that yields a result (pairs of the same id included) and nothing
\* for the others, and total_iterations counts all pairs.
C18_ResultsInSplitOrder ==
    run_pc = "emitted" =>
        LET rs == signal[1].results IN
        /\ signal[1].name = "result_ready"
        /\ signal[1].total_iterations = Len(iteration_pairs)
        /\ log_content.sections # <<>> =>
              /\ Len(iteration_pairs) = Len(log_content.sections)
              /\ \A i \in 1..Len(iteration_pairs) :
                    iteration_pairs[i] = log_content.sections[i]
        /\ Len(rs) = Cardinality(YieldingPairs)
        /\ \A k \in 1..Len(rs) :
              LET pair == iteration_pairs[NthYielding(k)] IN
              /\ rs[k].iteration = IntOf(pair.num)
              /\ rs[k].original_log = pair.content
              /\ rs[k] = WithOriginalLog(
                     ProcessIteration(SplitLines(pair.content), pair.num, run_mode)[1],
                     pair.content)

\* A delivered list with two records of the same iteration id and fewer
\* records than pairs.
C18_Witness ==
    /\ run_pc = "emitted"
    /\ Len(signal[1].results) < signal[1].total_iterations
    /\ \E k, l \in 1..Len(signal[1].results) :
          /\ k < l
          /\ signal[1].results[k].iteration = signal[1].results[l].iteration
          /\ signal[1].results[k].original_log # signal[1].results[l].original_log

\* The workers of the last started run.
LastWorkers == {i \in 1..Len(workers) : workers[i].run = starts}

\* The last run is a batch run on the loaded files and all its workers have
\* ended.
BatchRunOver ==
    /\ last_run.kind = "batch"
    /\ loaded_files = last_run.files
    /\ \A i \in LastWorkers : workers[i].done

\* The window shows a completed batch.
BatchCompleted ==
    /\ status_label = Status("Processed files", Len(loaded_files))
    /\ ~progress_visible
    /\ exports_enabled

\* C15: the step by which the last worker of a started batch ends (or the
\* start itself, when no worker is left to wait for) completes the batch:
\* progress bar hidden, export buttons enabled, status "Processed N files";
\* also with an unreadable file, a worker that ends with an error, or two
\* files of the same base name.
C15_BatchCompletes ==
    [][(~BatchRunOver /\ BatchRunOver' /\ loaded_files' = loaded_files)
          => BatchCompleted']_vars

\* Every loaded file has a worker of the last batch run that has delivered
\* result_ready.
BatchAllDelivered ==
    /\ BatchRunOver
    /\ \A k \in 1..Len(loaded_files) :
          \E i \in LastWorkers :
              /\ workers[i].path = loaded_files[k]
              /\ RunSignal(workers[i].log, CurrentMode)[1].name = "result_ready"

\* C16: once all workers of a batch have delivered their result, the batch
\* mapping holds one entry per loaded file, and the entry of each file is
\* the result list of that file's own content.
C16_OneEntryPerFile ==
    BatchAllDelivered =>
        /\ Cardinality(DOMAIN batch_results) = Len(loaded_files)
        /\ \A k \in 1..Len(loaded_files) :
              /\ loaded_files[k].base \in DOMAIN batch_results
              /\ batch_results[loaded_files[k].base]
                    = RunSignal(FileLog(loaded_files[k]), CurrentMode)[1].results

\* C17: from clear_all until the next processing run is started, the
\* single-entry result list and the batch mapping are empty.
C17_ClearedStaysEmpty ==
    last_run.kind = "cleared" =>
        /\ self_results = <<>>
        /\ DOMAIN batch_results = {}

\* The step scans this line.
Scans(line) == pc = "scan" /\ lines' = Append(lines, line)

\* The records of a dict other than the one of marker k.
OtherRecords(d, k) == SelectSeq(d, LAMBDA e : e.marker # k)

\* C21: a "Sending update" line with a height is recorded under the current
\* marker, the marker found last on this line or an earlier one; without a
\* marker so far it records nothing; the record replaces the marker's earlier
\* record and leaves the records of other markers unchanged.
C21_HeightUnderCurrentMarker ==
    [][\A line \in LogLines : Scans(line) =>
          /\ current_marker' =
                IF line.marker # <<>> THEN line.marker ELSE current_marker
          /\ IF line.sending /\ line.height # <<>> /\ current_marker' # <<>>
             THEN /\ DictHas(heights_by_marker', current_marker')
                  /\ DictGet(heights_by_marker', current_marker').height
                        = IntOf(line.height)
                  /\ DictGet(heights_by_marker', current_marker').line = line.body
                  /\ OtherRecords(heights_by_marker', current_marker')
                        = OtherRecords(heights_by_marker, current_marker')
                  /\ Len(heights_by_marker') =
                        Len(OtherRecords(heights_by_marker, current_marker')) + 1
             ELSE heights_by_marker' = heights_by_marker]_vars

\* Two different height lines were scanned under one marker and the record
\* of the marker is the one of the later line.
C21_Witness ==
    /\ pc = "scan"
    /\ Len(heights_by_marker) = 1
    /\ \E i, j \in 1..Len(lines) :
          /\ i < j
          /\ lines[i].sending /\ lines[i].height # <<>>
          /\ lines[j].sending /\ lines[j].height # <<>>
          /\ lines[i].body # lines[j].body
          /\ lines[i].marker # <<>>
          /\ lines[j].marker = <<>>
          /\ heights_by_marker[1].line = lines[j].body
          /\ heights_by_marker[1].marker = lines[i].marker

\* The positions of the lines with an end marker m and an end-time field.
EndLinesOf(m) ==
    {i \in 1..Len(lines) : lines[i].endMarker = m /\ lines[i].endTime # <<>>}

\* C22: after the scan, every marker of a line with an end marker and an end
\* time has a record in end_times_by_marker with the time (last 6 digits) and
\* the text of the last such line, whatever the end-time value.
C22_EndTimeOfLastLine ==
    pc = "done" =>
        \A i \in 1..Len(lines) :
            EndLinesOf(lines[i].endMarker) # {} =>
                LET m == lines[i].endMarker
                    last == CHOOSE j \in EndLinesOf(m) : \A k \in EndLinesOf(m) : k <= j
                IN /\ DictHas(end_times_by_marker, m)
                   /\ DictGet(end_times_by_marker, m).time
                         = DigitsMod(lines[last].endTime, Rollover)
                   /\ DictGet(end_times_by_marker, m).line = lines[last].body

\* C23: the stop of a result is the end time of the chosen marker when it has
\* one, else the largest of all end times, the marker field stays the chosen
\* marker, and a complete iteration is never absent for want of the chosen
\* marker's end time.
C23_StopFallsBackToMax ==
    /\ Returned =>
          LET r == result[1] IN
          /\ r.marker = ChosenMarker(ValidHeights(heights_by_marker))
          /\ IF DictHas(end_times_by_marker, r.marker)
             THEN r.stop = DictGet(end_times_by_marker, r.marker).time
             ELSE /\ \A i \in 1..Len(end_times_by_marker) :
                        end_times_by_marker[i].time <= r.stop
                  /\ \E i \in 1..Len(end_times_by_marker) :
                        end_times_by_marker[i].time = r.stop
    /\ (pc = "done" /\ Truthy(start_time) /\ heights_by_marker # <<>>
          /\ end_times_by_marker # <<>>) => result # None

\* A result whose marker has no end time, with two end times of which the
\* first is not the largest.
C23_Witness ==
    /\ Returned
    /\ ~DictHas(end_times_by_marker, result[1].marker)
    /\ Len(end_times_by_marker) = 2
    /\ end_times_by_marker[1].time < end_times_by_marker[2].time
    /\ result[1].stop = end_times_by_marker[2].time

\* C25: all_heights has one entry per marker of heights_by_marker, unknown
\* waveforms included, in the order of first insertion: a scanned line
\* appends at most one new marker and never moves one, and the result lists
\* the records as they stand.
C25_AllHeightsInsertionOrder ==
    [][/\ \A line \in LogLines : Scans(line) =>
             \/ DictKeys(heights_by_marker') = DictKeys(heights_by_marker)
             \/ /\ ~DictHas(heights_by_marker, current_marker')
                /\ DictKeys(heights_by_marker')
                      = Append(DictKeys(heights_by_marker), current_marker')
       /\ (pc = "scan" /\ pc' = "done" /\ result' # None) =>
             /\ Len(result'[1].all_heights) = Len(heights_by_marker)
             /\ \A i \in 1..Len(heights_by_marker) :
                   /\ result'[1].all_heights[i].marker = heights_by_marker[i].marker
                   /\ result'[1].all_heights[i].height = heights_by_marker[i].height
                   /\ result'[1].all_heights[i].waveform = heights_by_marker[i].waveform
                   /\ \A j \in 1..Len(heights_by_marker) :
                         i # j => heights_by_marker[i].marker # heights_by_marker[j].marker
      ]_vars

\* The record of the first of two markers was overwritten and kept its place.
C25_Witness ==
    /\ pc = "scan"
    /\ Len(heights_by_marker) = 2
    /\ \E i, j, k \in 1..Len(lines) :
          /\ i < j /\ j < k
          /\ lines[i].marker = heights_by_marker[1].marker
          /\ lines[j].marker = heights_by_marker[2].marker
          /\ lines[k].marker = heights_by_marker[1].marker
          /\ lines[i].sending /\ lines[j].sending /\ lines[k].sending
          /\ heights_by_marker[1].line = lines[k].body

\* The waveform name is "unknown" in some spelling of its letters' case.
UnknownName(w) == w \in {"unknown", "UNKNOWN", "Unknown"}

\* The positions of the height records with a waveform other than "unknown".
KnownRecords ==
    {i \in 1..Len(heights_by_marker) : ~UnknownName(heights_by_marker[i].waveform)}

\* C24: when some height record has a waveform other than "unknown" in any
\* case, the chosen marker is one of those records and max_height is the
\* largest height among them only; max_height and max_height_waveform are
\* the height and waveform recorded for the result's marker.
C24_MaxAmongKnownWaveforms ==
    Returned =>
        LET r == result[1] IN
        /\ DictHas(heights_by_marker, r.marker)
        /\ r.max_height = DictGet(heights_by_marker, r.marker).height
        /\ r.max_height_waveform = DictGet(heights_by_marker, r.marker).waveform
        /\ KnownRecords # {} =>
              /\ \E i \in KnownRecords : heights_by_marker[i].marker = r.marker
              /\ \A i \in KnownRecords : heights_by_marker[i].height <= r.max_height

\* A result chosen among the known waveforms while a record named "UNKNOWN"
\* has a larger height.
C24_Witness ==
    /\ Returned
    /\ \E i \in 1..Len(heights_by_marker) :
          /\ heights_by_marker[i].waveform = "UNKNOWN"
          /\ heights_by_marker[i].height > result[1].max_height
    /\ result[1].max_height_waveform = "GC16"

\* The line belongs to no event category: it is blank, or it carries no
\* start event, no marker, no height and no end time.
Ignorable(line) ==
    \/ line.body = ""
    \/ /\ line.ev = "none"
       /\ line.marker = <<>>
       /\ line.height = <<>>
       /\ line.endMarker = <<>>
       /\ line.endTime = <<>>

\* The scanned lines without the ignorable ones.
EventLines == SelectSeq(lines, LAMBDA l : ~Ignorable(l))

\* C26: blank lines and lines of no event category leave the scan state
\* unchanged: the state and the result are those of the same sequence
\* without such lines.
C26_IgnorableLinesNoEffect ==
    /\ pc \in {"scan", "done"} => Locals = ScanAll(FreshLocals, mode, EventLines)
    /\ pc = "done" => result = ProcessIteration(EventLines, iteration_num, mode)

\* A result of lines with a line of no event category after the start line.
C26_Witness ==
    /\ Returned
    /\ \E i, j \in 1..Len(lines) :
          /\ i < j
          /\ lines[i].body = result[1].start_line
          /\ Ignorable(lines[j])
          /\ lines[j].body # ""

\* The record was written by a line whose waveform name is "auto".
FromAutoLine(e) ==
    \E i \in 1..Len(lines) : lines[i].body = e.line /\ lines[i].waveform = "auto"

\* C30: a height record of a line whose waveform name is "auto" is stored
\* and reported as "unknown" and is not chosen when another record has a
\* known waveform; no entry of all_heights has waveform "auto" or "".
C30_AutoIsUnknown ==
    /\ \A i \in 1..Len(heights_by_marker) :
          /\ heights_by_marker[i].waveform \notin {"auto", ""}
          /\ FromAutoLine(heights_by_marker[i]) =>
                heights_by_marker[i].waveform = "unknown"
    /\ Returned =>
          /\ \A i \in 1..Len(result[1].all_heights) :
                result[1].all_heights[i].waveform \notin {"auto", ""}
          /\ KnownRecords # {} =>
                ~FromAutoLine(DictGet(heights_by_marker, result[1].marker))

\* A result with a record of an "auto" line that has the largest height and
\* is not chosen.
C30_Witness ==
    /\ Returned
    /\ \E i \in 1..Len(heights_by_marker) :
          /\ FromAutoLine(heights_by_marker[i])
          /\ heights_by_marker[i].height > result[1].max_height
          /\ result[1].all_heights[i].waveform = "unknown"

\* Every text splits into at least one pair.
EveryTextHasAPair ==
    \A t \in TextsUpTo(MaxText) : Len(PairUp(SplitIterations(t))) >= 1

\* C27: a run emits one terminal signal, result_ready or error_occurred and
\* not both; its progress values are non-decreasing and within 10..100; 100
\* is emitted before result_ready; the list of pairs is never empty, so the
\* progress computation never divides by zero.
C27_OneTerminalSignal ==
    /\ Len(signal) <= 1
    /\ RunOver => Len(signal) = 1
    /\ \A i \in 1..Len(signal) : signal[i].name \in {"result_ready", "error_occurred"}
    /\ (run_pc = "emitted") = (signal # <<>> /\ signal[1].name = "result_ready")
    /\ (run_pc = "failed") = (signal # <<>> /\ signal[1].name = "error_occurred")
    /\ \A i \in 1..Len(progress) : progress[i] \in 10..100
    /\ \A i, j \in 1..Len(progress) : i < j => progress[i] <= progress[j]
    /\ run_pc = "looped" => signal = <<>>
    /\ run_pc \in {"looped", "emitted"} => progress[Len(progress)] = 100
    /\ run_pc = "failed" => \A i \in 1..Len(progress) : progress[i] < 100
    /\ run_pc # "start" => Len(iteration_pairs) >= 1
    /\ EveryTextHasAPair

\* The run of the empty text has emitted result_ready.
C27_Witness ==
    /\ run_pc = "emitted"
    /\ log_content = [head |-> "", sections |-> <<>>]
    /\ progress = <<10, 30, 50, 90, 100>>
    /\ signal[1].total_iterations = 1

\* The workers of the single-entry runs.
SingleWorkers == {i \in 1..Len(workers) : workers[i].kind = "single"}

\* What the worker's run delivers.
SignalOf(i) == RunSignal(workers[i].log, CurrentMode)[1]

\* C28: when a single-entry run was started while an earlier one was in
\* flight and both have ended, the result list of the window is the one of
\* the run started last, in whatever order the two ended.
C28_LatestRunShown ==
    (/\ last_run.kind = "single"
     /\ Cardinality(SingleWorkers) = 2
     /\ \A i \in SingleWorkers : workers[i].done
     /\ \A i \in SingleWorkers : SignalOf(i).name = "result_ready")
    => \A i \in SingleWorkers :
          workers[i].run = starts => self_results = SignalOf(i).results

\* The pairs the accumulated text splits into.
AddedPairs == PairUp(SplitIterations(all_iterations_data))

\* C29: after k add_iteration calls with non-empty texts the accumulated text
\* splits into k pairs with the ids 01, 02, ..., k in this order; an empty
\* text changes nothing and clear_all resets the counter to 1.
C29_PairsAreAddedIterations ==
    /\ all_iterations_data = <<>> => current_iteration = 1
    /\ all_iterations_data # <<>> =>
          /\ Len(AddedPairs) = current_iteration - 1
          /\ \A i \in 1..Len(AddedPairs) :
                AddedPairs[i].num =
                    [j \in 1..Len(TwoDigits(i)) |-> DigitSymbols[TwoDigits(i)[j] + 1]]

====
